---- MODULE Spec2Model ----
(***************************************************************************)
(* NumpyVectorStore (langchain/vectorstores/numpy.py): a numpy matrix of   *)
(* embeddings (index), a dict from row number to docstore id               *)
(* (index_to_docstore_id) and a docstore of Documents, with the operations *)
(* add_texts, similarity_search and max_marginal_relevance_search.         *)
(*                                                                         *)
(* Spec     : every call runs to completion (one action per method), one   *)
(*            call at a time; call and result hold the call just made.     *)
(* SpecConc : one thread in add_texts and one in similarity_search,        *)
(*            interleaved statement by statement (no lock in the class).   *)
(***************************************************************************)
EXTENDS Integers, Sequences, FiniteSets, TLC

VARIABLES index, index_to_docstore_id, docstore, uuid_draws,
          call, result, writer, reader

vars == <<index, index_to_docstore_id, docstore, uuid_draws,
          call, result, writer, reader>>

store == <<index, index_to_docstore_id, docstore>>

\* ---------------------------------------------------------------- bounds
MaxRows == 2      \* rows the index may hold
MaxTexts == 2     \* texts of one add_texts call
MaxK == 2         \* largest k (and fetch_k) of a search
MaxInit == 1      \* rows of the store handed to the constructor

\* ------------------------------------------------------------ collaborators
\* The texts used; "wide" embeds to a vector of another width.
Texts == {"one", "two", "three", "wide"}

\* The embedding function handed to the constructor (self.embedding_function).
embedding_function(text) ==
    CASE text = "one" -> <<1, 0>>
      [] text = "two" -> <<0, 1>>
      [] text = "three" -> <<1, 1>>
      [] text = "wide" -> <<1, 1, 1>>

Min(a, b) == IF a <= b THEN a ELSE b

Range(s) == {s[i] : i \in DOMAIN s}

\* Document(page_content=text, metadata=metadata)
Document(text, metadata) == [page_content |-> text, metadata |-> metadata]

\* The metadata {} and the metadata found at position i of a metadatas list.
EmptyMetadata == {}
MetadataAt(i) == {i}

\* metadatas=None, or a list of j metadatas.
NoMetadatas == [given |-> FALSE, list |-> <<>>]
MetadatasOfLen(j) == [given |-> TRUE, list |-> [i \in 1..j |-> MetadataAt(i)]]

\* Python truthiness of `metadatas`: None and [] are false.
Truthy(metadatas) == metadatas.given /\ Len(metadatas.list) > 0

\* str(uuid.uuid4()): the c-th draw; draws never repeat and never equal str(i).
uuid4(c) == [kind |-> "uuid4", n |-> c]
\* str(i), the ids from_texts gives.
StrId(i) == [kind |-> "str", n |-> i]

\* An iterable of texts: a list can be iterated again, an iterator only once.
\* IterateAgain is what a second `for ... in texts` yields.
IterateFirst(texts) == texts.items
IterateAgain(texts) == IF texts.oneShot THEN <<>> ELSE texts.items

\* Docstore.add(mapping): the in-memory docstore merges the new entries.
DocstoreAdd(ds, new) ==
    [ds EXCEPT !.docs = [id \in DOMAIN ds.docs \cup DOMAIN new |->
                            IF id \in DOMAIN new THEN new[id] ELSE ds.docs[id]]]

\* Docstore.search(id): the Document, or a string saying it was not found.
DocstoreSearch(ds, id) ==
    IF id \in DOMAIN ds.docs
    THEN [isDocument |-> TRUE, doc |-> ds.docs[id]]
    ELSE [isDocument |-> FALSE, doc |-> Document("ID not found.", EmptyMetadata)]

\* ------------------------------------------------------------------ add_texts
\* [self.embedding_function(text) for text in texts]
Embeddings(texts) ==
    [i \in 1..Len(IterateFirst(texts)) |-> embedding_function(IterateFirst(texts)[i])]

\* The loop building `documents` iterates texts a second time; metadatas[i]
\* raises IndexError when a truthy metadatas is shorter.
DocumentsRaise(texts, metadatas) ==
    Truthy(metadatas) /\ Len(metadatas.list) < Len(IterateAgain(texts))

Documents(texts, metadatas) ==
    [i \in 1..Len(IterateAgain(texts)) |->
        Document(IterateAgain(texts)[i],
                 IF Truthy(metadatas) THEN metadatas.list[i] ELSE EmptyMetadata)]

\* A plausible slip: rows of another width are skipped instead of rejected.
vstack_skip_mismatched(idx, embeddings) ==
    [ok |-> TRUE,
     index |-> [idx EXCEPT !.rows =
                  idx.rows \o SelectSeq(embeddings, LAMBDA e : Len(e) = idx.d)]]

\* np.vstack((self.index, np.array(embeddings, dtype=np.float32))): np.array
\* raises on ragged rows, vstack on another width; an empty list becomes an
\* array of shape (1, 0), which no index of width d > 0 accepts.
vstack(idx, embeddings) ==
    IF Len(embeddings) > 0 /\ \A i \in 1..Len(embeddings) : Len(embeddings[i]) = idx.d
    THEN [ok |-> TRUE, index |-> [idx EXCEPT !.rows = idx.rows \o embeddings]]
    ELSE [ok |-> FALSE, index |-> idx]

\* full_info = [(starting_len + i, str(uuid.uuid4()), doc) for i, doc in enumerate(documents)]
FullInfo(starting_len, draws, documents) ==
    [i \in 1..Len(documents) |->
        [index |-> starting_len + (i - 1), id |-> uuid4(draws + i), doc |-> documents[i]]]

\* {_id: doc for _, _id, doc in full_info}
IdToDoc(full_info) ==
    [id \in {full_info[i].id : i \in DOMAIN full_info} |->
        (CHOOSE e \in Range(full_info) : e.id = id /\
            \A j \in DOMAIN full_info :
                full_info[j].id = id => \E l \in j..Len(full_info) : full_info[l] = e).doc]

\* {index: _id for index, _id, _ in full_info}
IndexToId(full_info) ==
    [r \in {full_info[i].index : i \in DOMAIN full_info} |->
        (CHOOSE e \in Range(full_info) : e.index = r).id]

\* dict.update
Update(d, new) ==
    [r \in DOMAIN d \cup DOMAIN new |-> IF r \in DOMAIN new THEN new[r] ELSE d[r]]

Raise(op, err) == [op |-> op, status |-> "raise", err |-> err,
                   ids |-> <<>>, docs |-> <<>>, indices |-> <<>>]
Return(op, ids, docs, indices) == [op |-> op, status |-> "ok", err |-> "",
                                   ids |-> ids, docs |-> docs, indices |-> indices]

NoResult == [op |-> "none", status |-> "none", err |-> "",
             ids |-> <<>>, docs |-> <<>>, indices |-> <<>>]

NoCall == [op |-> "none", texts |-> [items |-> <<>>, oneShot |-> FALSE],
           metadatas |-> NoMetadatas, query |-> "one", k |-> 0, fetch_k |-> 0]
AddCall(texts, metadatas) == [NoCall EXCEPT !.op = "add_texts", !.texts = texts,
                                            !.metadatas = metadatas]
SearchCall(query, k) == [NoCall EXCEPT !.op = "similarity_search", !.query = query, !.k = k]
MmrCall(query, k, fetch_k) ==
    [NoCall EXCEPT !.op = "max_marginal_relevance_search",
                   !.query = query, !.k = k, !.fetch_k = fetch_k]

\* The inputs of add_texts that are enumerated: lists and one-shot iterators
\* of up to MaxTexts texts; metadatas None, one entry short, or complete (an
\* iterator's metadatas are never read, so None stands for all of them).
TextLists == UNION {[1..m -> Texts] : m \in 0..MaxTexts}
TextInputs == {[items |-> l, oneShot |-> o] : l \in TextLists, o \in BOOLEAN}
MetadataInputs(texts) ==
    IF texts.oneShot THEN {NoMetadatas}
    ELSE {NoMetadatas} \cup
         {MetadatasOfLen(j) : j \in ((Len(texts.items) - 1)..Len(texts.items)) \cap Nat}

\* The index is kept to MaxRows rows: a call that would grow it further is
\* left out (one that raises grows nothing).
WithinBounds(texts) ==
    vstack(index, Embeddings(texts)).ok
        => Len(index.rows) + Len(texts.items) <= MaxRows

\* NumpyVectorStore.add_texts, run to completion.
add_texts(texts, metadatas) ==
    /\ call.op = "none"
    /\ WithinBounds(texts)
    /\ call' = AddCall(texts, metadatas)
    /\ UNCHANGED <<writer, reader>>
    /\ IF ~docstore.addable
       THEN /\ result' = Raise("add_texts", "ValueError")
            /\ UNCHANGED <<index, index_to_docstore_id, docstore, uuid_draws>>
       ELSE IF DocumentsRaise(texts, metadatas)
       THEN /\ result' = Raise("add_texts", "IndexError")
            /\ UNCHANGED <<index, index_to_docstore_id, docstore, uuid_draws>>
       ELSE IF ~vstack(index, Embeddings(texts)).ok
       THEN /\ result' = Raise("add_texts", "ValueError")
            /\ UNCHANGED <<index, index_to_docstore_id, docstore, uuid_draws>>
       ELSE LET starting_len == Cardinality(DOMAIN index_to_docstore_id)
                full_info == FullInfo(starting_len, uuid_draws,
                                      Documents(texts, metadatas))
            IN /\ index' = vstack(index, Embeddings(texts)).index
               /\ uuid_draws' = uuid_draws + Len(full_info)
               /\ docstore' = DocstoreAdd(docstore, IdToDoc(full_info))
               /\ index_to_docstore_id' = Update(index_to_docstore_id, IndexToId(full_info))
               /\ result' = Return("add_texts",
                                   [i \in 1..Len(full_info) |-> full_info[i].id],
                                   <<>>, <<>>)

AddTexts == \E texts \in TextInputs : \E metadatas \in MetadataInputs(texts) :
                add_texts(texts, metadatas)

\* ---------------------------------------------------------- similarity_search
RECURSIVE SumSq(_, _, _)
SumSq(row, q, i) ==
    IF i > Len(row) THEN 0
    ELSE (row[i] - q[i]) * (row[i] - q[i]) + SumSq(row, q, i + 1)

\* D = np.sum((self.index - embedding) ** 2, axis=1), by 0-based row number.
\* (The stub's coordinates are 0 and 1, which float32 holds exactly.)
Distances(idx, embedding) ==
    [r \in 0..(Len(idx.rows) - 1) |-> SumSq(idx.rows[r + 1], embedding, 1)]

\* The subtraction broadcasts only when the widths agree.
Broadcasts(idx, embedding) == Len(embedding) = idx.d

Permutations0(n) ==
    {p \in [1..n -> 0..(n - 1)] : \A i, j \in 1..n : i # j => p[i] # p[j]}

\* np.argsort(D) with the default kind ("quicksort"), which numpy documents as
\* not stable: any permutation that sorts D, ties in any order.
Argsort(D) ==
    {I \in Permutations0(Cardinality(DOMAIN D)) :
        \A i, j \in DOMAIN I : i < j => D[I[i]] <= D[I[j]]}

\* I[:k] if len(I) >= k else np.pad(I, (0, k - len(I)), constant_values=-1)
TakeK(I, k) ==
    IF Len(I) >= k THEN SubSeq(I, 1, k)
    ELSE I \o [j \in 1..(k - Len(I)) |-> -1]

\* A plausible slip: an unresolved row is skipped instead of raising.
RECURSIVE ResolveSkipping(_, _, _, _, _)
ResolveSkipping(indices, pos, docs, mapping, ds) ==
    IF pos > Len(indices) THEN Return("similarity_search", <<>>, docs, indices)
    ELSE IF indices[pos] = -1 \/ indices[pos] \notin DOMAIN mapping
    THEN ResolveSkipping(indices, pos + 1, docs, mapping, ds)
    ELSE IF ~DocstoreSearch(ds, mapping[indices[pos]]).isDocument
    THEN ResolveSkipping(indices, pos + 1, docs, mapping, ds)
    ELSE ResolveSkipping(indices, pos + 1,
                         Append(docs, DocstoreSearch(ds, mapping[indices[pos]]).doc),
                         mapping, ds)

\* The loop `for i in indices` of similarity_search, from position pos on.
RECURSIVE Resolve(_, _, _, _, _)
Resolve(indices, pos, docs, mapping, ds) ==
    IF pos > Len(indices) THEN Return("similarity_search", <<>>, docs, indices)
    ELSE IF indices[pos] = -1
    THEN Resolve(indices, pos + 1, docs, mapping, ds)
    ELSE IF indices[pos] \notin DOMAIN mapping
    THEN [Raise("similarity_search", "KeyError") EXCEPT !.indices = indices]
    ELSE IF ~DocstoreSearch(ds, mapping[indices[pos]]).isDocument
    THEN [Raise("similarity_search", "ValueError") EXCEPT !.indices = indices]
    ELSE Resolve(indices, pos + 1,
                 Append(docs, DocstoreSearch(ds, mapping[indices[pos]]).doc),
                 mapping, ds)

\* NumpyVectorStore.similarity_search, run to completion.
similarity_search(query, k) ==
    /\ call.op = "none"
    /\ call' = SearchCall(query, k)
    /\ UNCHANGED <<index, index_to_docstore_id, docstore, uuid_draws, writer, reader>>
    /\ IF ~Broadcasts(index, embedding_function(query))
       THEN result' = Raise("similarity_search", "ValueError")
       ELSE \E I \in Argsort(Distances(index, embedding_function(query))) :
                result' = Resolve(TakeK(I, k), 1, <<>>, index_to_docstore_id, docstore)

SimilaritySearch == \E query \in Texts : \E k \in 0..MaxK : similarity_search(query, k)

\* ------------------------------------------- max_marginal_relevance_search
\* self.index is a numpy array (from_texts, add_texts): it has no method
\* `search`, so line 125 raises AttributeError before anything else happens.
max_marginal_relevance_search(query, k, fetch_k) ==
    /\ call.op = "none"
    /\ call' = MmrCall(query, k, fetch_k)
    /\ result' = Raise("max_marginal_relevance_search", "AttributeError")
    /\ UNCHANGED <<index, index_to_docstore_id, docstore, uuid_draws, writer, reader>>

MaxMarginalRelevanceSearch ==
    \E query \in Texts : \E k \in 0..MaxK : \E fetch_k \in k..MaxK :
        max_marginal_relevance_search(query, k, fetch_k)

\* ------------------------------------------------------------------- Init
IdleWriter == [pc |-> "idle", texts |-> [items |-> <<>>, oneShot |-> FALSE],
               embeddings |-> <<>>, documents |-> <<>>, starting_len |-> 0,
               full_info |-> <<>>, result |-> NoResult]
IdleReader == [pc |-> "idle", k |-> 0, indices |-> <<>>, pos |-> 1, docs |-> <<>>,
               result |-> NoResult]

\* The store after construction: as from_texts builds it from a list of texts
\* of the index's width (row i is the embedding of text i, its id is str(i)),
\* with a docstore that may or may not support add and may lack documents
\* (the constructor takes any Docstore).
ValidTexts == {t \in Texts : Len(embedding_function(t)) = 2}

Init ==
    \E m \in 0..MaxInit : \E texts \in [1..m -> ValidTexts] :
    \E present \in SUBSET (0..(m - 1)) : \E addable \in BOOLEAN :
        /\ index = [d |-> 2, rows |-> [i \in 1..m |-> embedding_function(texts[i])]]
        /\ index_to_docstore_id = [r \in 0..(m - 1) |-> StrId(r)]
        /\ docstore = [addable |-> addable,
                       docs |-> [id \in {StrId(r) : r \in present} |->
                                    Document(texts[id.n + 1], EmptyMetadata)]]
        /\ uuid_draws = 0
        /\ call = NoCall
        /\ result = NoResult
        /\ writer = IdleWriter
        /\ reader = IdleReader

\* The call is over: the caller has what it returned or raised (lines 78, 106,
\* or the exception), and the store alone carries over to the next call.
ReturnToCaller ==
    /\ call.op # "none"
    /\ call' = NoCall
    /\ result' = NoResult
    /\ UNCHANGED <<index, index_to_docstore_id, docstore, uuid_draws, writer, reader>>

Next == AddTexts \/ SimilaritySearch \/ MaxMarginalRelevanceSearch \/ ReturnToCaller

Spec == Init /\ [][Next]_vars

\* ------------------------------------------------- statement by statement
\* add_texts lines 55-67: the docstore check, the embeddings, the documents
\* and starting_len. The texts are lists here, so that whatever a search
\* observes is the interleaving's doing.
AddTextsBegin(texts, metadatas) ==
    /\ writer.pc = "idle"
    /\ WithinBounds(texts)
    /\ UNCHANGED <<index, index_to_docstore_id, docstore, uuid_draws, call, result, reader>>
    /\ IF ~docstore.addable
       THEN writer' = [IdleWriter EXCEPT !.result = Raise("add_texts", "ValueError")]
       ELSE IF DocumentsRaise(texts, metadatas)
       THEN writer' = [IdleWriter EXCEPT !.result = Raise("add_texts", "IndexError")]
       ELSE writer' = [IdleWriter EXCEPT
                          !.pc = "vstack", !.texts = texts,
                          !.embeddings = Embeddings(texts),
                          !.documents = Documents(texts, metadatas),
                          !.starting_len = Cardinality(DOMAIN index_to_docstore_id)]

\* add_texts line 68: self.index = np.vstack(...)
AddTextsVstack ==
    /\ writer.pc = "vstack"
    /\ UNCHANGED <<index_to_docstore_id, docstore, uuid_draws, call, result, reader>>
    /\ IF vstack(index, writer.embeddings).ok
       THEN /\ index' = vstack(index, writer.embeddings).index
            /\ writer' = [writer EXCEPT !.pc = "docstore_add"]
       ELSE /\ index' = index
            /\ writer' = [IdleWriter EXCEPT !.result = Raise("add_texts", "ValueError")]

\* add_texts lines 70-75: full_info and self.docstore.add(...)
AddTextsDocstoreAdd ==
    /\ writer.pc = "docstore_add"
    /\ LET full_info == FullInfo(writer.starting_len, uuid_draws, writer.documents)
       IN /\ uuid_draws' = uuid_draws + Len(full_info)
          /\ docstore' = DocstoreAdd(docstore, IdToDoc(full_info))
          /\ writer' = [writer EXCEPT !.pc = "update", !.full_info = full_info]
    /\ UNCHANGED <<index, index_to_docstore_id, call, result, reader>>

\* add_texts lines 76-78: self.index_to_docstore_id.update(...) and the return
AddTextsUpdate ==
    /\ writer.pc = "update"
    /\ index_to_docstore_id' = Update(index_to_docstore_id, IndexToId(writer.full_info))
    /\ writer' = [IdleWriter EXCEPT !.result =
                    Return("add_texts",
                           [i \in 1..Len(writer.full_info) |-> writer.full_info[i].id],
                           <<>>, <<>>)]
    /\ UNCHANGED <<index, docstore, uuid_draws, call, result, reader>>

\* similarity_search lines 90-94: D, I and indices, from the index as it is now.
SearchBegin(query, k) ==
    /\ reader.pc = "idle"
    /\ UNCHANGED <<index, index_to_docstore_id, docstore, uuid_draws, call, result, writer>>
    /\ IF ~Broadcasts(index, embedding_function(query))
       THEN reader' = [IdleReader EXCEPT !.result = Raise("similarity_search", "ValueError")]
       ELSE \E I \in Argsort(Distances(index, embedding_function(query))) :
                reader' = [IdleReader EXCEPT !.pc = "loop", !.k = k,
                                             !.indices = TakeK(I, k)]

\* similarity_search lines 97-106: one turn of the loop, or the return after it.
SearchStep ==
    /\ reader.pc = "loop"
    /\ UNCHANGED <<index, index_to_docstore_id, docstore, uuid_draws, call, result, writer>>
    /\ IF reader.pos > Len(reader.indices)
       THEN reader' = [IdleReader EXCEPT !.result =
                          Return("similarity_search", <<>>, reader.docs, reader.indices)]
       ELSE IF reader.indices[reader.pos] = -1
       THEN reader' = [reader EXCEPT !.pos = @ + 1]
       ELSE IF reader.indices[reader.pos] \notin DOMAIN index_to_docstore_id
       THEN reader' = [IdleReader EXCEPT !.result =
                          [Raise("similarity_search", "KeyError")
                              EXCEPT !.indices = reader.indices]]
       ELSE IF ~DocstoreSearch(docstore,
                               index_to_docstore_id[reader.indices[reader.pos]]).isDocument
       THEN reader' = [IdleReader EXCEPT !.result =
                          [Raise("similarity_search", "ValueError")
                              EXCEPT !.indices = reader.indices]]
       ELSE reader' = [reader EXCEPT
                          !.pos = @ + 1,
                          !.docs = Append(@, DocstoreSearch(docstore,
                                     index_to_docstore_id[reader.indices[reader.pos]]).doc)]

ListInputs == {t \in TextInputs : ~t.oneShot}

NextConc ==
    \/ \E texts \in ListInputs : \E metadatas \in MetadataInputs(texts) :
           AddTextsBegin(texts, metadatas)
    \/ AddTextsVstack
    \/ AddTextsDocstoreAdd
    \/ AddTextsUpdate
    \/ \E query \in Texts : \E k \in 0..MaxK : SearchBegin(query, k)
    \/ SearchStep

SpecConc == Init /\ [][NextConc]_vars

\* ------------------------------------------------------------- properties
\* The rows a search resolved, in order: its indices without the padding.
ReturnedRows(res) == SelectSeq(res.indices, LAMBDA i : i # -1)

\* Every id of the mapping resolves to a Document in the docstore.
AllIdsResolve ==
    \A r \in DOMAIN index_to_docstore_id :
        DocstoreSearch(docstore, index_to_docstore_id[r]).isDocument

\* Every row has an id, and every id resolves.
StoreConsistent ==
    /\ DOMAIN index_to_docstore_id = 0..(Len(index.rows) - 1)
    /\ AllIdsResolve

\* The rows R are |R| nearest rows of the index under the distances D, without
\* repetition: no row left out is strictly nearer than a row of R.
AreNearest(R, D) ==
    /\ \A i, j \in DOMAIN R : i # j => R[i] # R[j]
    /\ \A i \in DOMAIN R : R[i] \in DOMAIN D
    /\ \A i \in DOMAIN R : \A s \in DOMAIN D \ Range(R) : D[R[i]] <= D[s]

NonDecreasing(R, D) == \A i, j \in DOMAIN R : i < j => D[R[i]] <= D[R[j]]

\* Some embedding of the texts has another width than the index.
HasMismatch(texts, idx) ==
    \E i \in DOMAIN texts.items : Len(embedding_function(texts.items[i])) # idx.d

\* C1: the number of rows of the index equals the number of entries of
\* index_to_docstore_id in every reachable state.
C1_RowsEqualIds ==
    Len(index.rows) = Cardinality(DOMAIN index_to_docstore_id)

\* C2: a similarity_search interleaved with an add_texts (of a list) never
\* takes a row from the index that has no entry in index_to_docstore_id when
\* it looks the row up (the lookup of line 101 never raises KeyError).
C2_NoTornRead ==
    reader.result.err # "KeyError"

\* C3: similarity_search(query, k) returns exactly min(k, n) documents, those
\* of min(k, n) nearest rows, in non-decreasing order of distance. Stated for
\* a query of the index's width on a store all of whose ids resolve.
C3_SearchReturnsNearest ==
    (/\ call.op = "similarity_search"
     /\ Broadcasts(index, embedding_function(call.query))
     /\ AllIdsResolve)
    => LET D == Distances(index, embedding_function(call.query))
           R == ReturnedRows(result)
       IN /\ result.status = "ok"
          /\ Len(result.docs) = Min(call.k, Len(index.rows))
          /\ Len(R) = Len(result.docs)
          /\ AreNearest(R, D)
          /\ NonDecreasing(R, D)
          /\ \A j \in DOMAIN R :
                result.docs[j] = docstore.docs[index_to_docstore_id[R[j]]]

\* C4: in the result of similarity_search two rows at equal distance from the
\* query appear in ascending row order.
C4_TiesAscending ==
    (call.op = "similarity_search" /\ result.status = "ok")
    => LET D == Distances(index, embedding_function(call.query))
           R == ReturnedRows(result)
       IN \A i, j \in DOMAIN R : (i < j /\ D[R[i]] = D[R[j]]) => R[i] < R[j]

\* C5: an add_texts call in which some embedding has another width than the
\* index raises, and leaves index, index_to_docstore_id and docstore as they were.
C5_MismatchLeavesStoreUnchanged ==
    [][(call'.op = "add_texts" /\ HasMismatch(call'.texts, index))
       => (result'.status = "raise" /\ store' = store)]_vars

\* C5 witness: np.vstack rejected a list in which a fitting embedding comes
\* before one of another width, on a store that holds rows.
C5_Witness ==
    /\ call.op = "add_texts"
    /\ docstore.addable
    /\ Len(index.rows) > 0
    /\ result.status = "raise" /\ result.err = "ValueError"
    /\ \E i, j \in DOMAIN call.texts.items :
          /\ i < j
          /\ Len(embedding_function(call.texts.items[i])) = index.d
          /\ Len(embedding_function(call.texts.items[j])) # index.d

\* C6: a successful add_texts of m texts on a store with n rows returns m
\* fresh, pairwise distinct ids in input order; row n+i is the embedding of
\* texts[i], index_to_docstore_id[n+i] the i-th id, and the docstore maps that
\* id to Document(texts[i], metadatas[i] or {}).
C6_AddAppendsInOrder ==
    [][(call'.op = "add_texts" /\ result'.status = "ok")
       => LET n == Len(index.rows)
              items == call'.texts.items
              ids == result'.ids
          IN /\ Len(ids) = Len(items)
             /\ \A i, j \in DOMAIN ids : i # j => ids[i] # ids[j]
             /\ \A i \in DOMAIN ids : ids[i] \notin Range(index_to_docstore_id)
             /\ Len(index'.rows) = n + Len(items)
             /\ \A i \in DOMAIN items :
                   /\ index'.rows[n + i] = embedding_function(items[i])
                   /\ (n + i - 1) \in DOMAIN index_to_docstore_id'
                   /\ index_to_docstore_id'[n + i - 1] = ids[i]
                   /\ ids[i] \in DOMAIN docstore'.docs
                   /\ docstore'.docs[ids[i]] =
                         Document(items[i],
                                  IF Truthy(call'.metadatas)
                                  THEN call'.metadatas.list[i] ELSE EmptyMetadata)]_vars

\* C7: similarity_search returns a Document for every one of the min(k, n)
\* nearest rows, or raises and returns nothing; when an id of one of the rows
\* it took resolves to something that is not a Document it raises, and never
\* returns the list with the unresolved rows dropped.
C7_AllOrNothing ==
    call.op = "similarity_search"
    => LET R == ReturnedRows(result)
       IN /\ result.status = "ok" =>
                /\ Len(result.docs) = Min(call.k, Len(index.rows))
                /\ Len(R) = Len(result.docs)
                /\ AreNearest(R, Distances(index, embedding_function(call.query)))
                /\ \A j \in DOMAIN R :
                      /\ R[j] \in DOMAIN index_to_docstore_id
                      /\ DocstoreSearch(docstore, index_to_docstore_id[R[j]]).isDocument
                      /\ result.docs[j] = docstore.docs[index_to_docstore_id[R[j]]]
          /\ (\E j \in DOMAIN R :
                 /\ R[j] \in DOMAIN index_to_docstore_id
                 /\ ~DocstoreSearch(docstore, index_to_docstore_id[R[j]]).isDocument)
             => (result.status = "raise" /\ result.docs = <<>>)
          /\ result.status \in {"ok", "raise"}
          /\ result.status = "raise" => result.docs = <<>>

\* C7 witness: the search resolved its nearest row to a Document and then met
\* a row whose id the docstore does not know, and raised ValueError.
C7_Witness ==
    /\ call.op = "similarity_search"
    /\ result.status = "raise" /\ result.err = "ValueError"
    /\ Len(ReturnedRows(result)) >= 2
    /\ ReturnedRows(result)[1] \in DOMAIN index_to_docstore_id
    /\ DocstoreSearch(docstore, index_to_docstore_id[ReturnedRows(result)[1]]).isDocument
    /\ ReturnedRows(result)[2] \in DOMAIN index_to_docstore_id
    /\ ~DocstoreSearch(docstore, index_to_docstore_id[ReturnedRows(result)[2]]).isDocument

\* C8: on a store with n >= 1 rows and fetch_k >= k >= 0,
\* max_marginal_relevance_search returns min(k, n) documents without
\* repetition, each of one of the min(fetch_k, n) nearest rows. Stated for a
\* store in which every row has an id that resolves.
C8_MmrReturnsSelection ==
    (/\ call.op = "max_marginal_relevance_search"
     /\ Len(index.rows) >= 1
     /\ call.fetch_k >= call.k
     /\ StoreConsistent)
    => LET D == Distances(index, embedding_function(call.query))
           R == ReturnedRows(result)
       IN /\ result.status = "ok"
          /\ Len(result.docs) = Min(call.k, Len(index.rows))
          /\ Len(R) = Len(result.docs)
          /\ \A i, j \in DOMAIN R : i # j => R[i] # R[j]
          /\ \E pool \in SUBSET DOMAIN D :
                /\ Cardinality(pool) = Min(call.fetch_k, Len(index.rows))
                /\ \A r \in pool : \A s \in DOMAIN D \ pool : D[r] <= D[s]
                /\ Range(R) \subseteq pool
          /\ \A j \in DOMAIN R :
                result.docs[j] = docstore.docs[index_to_docstore_id[R[j]]]

\* C9: after add_texts(texts), similarity_search(t, k) for an added text t
\* lists Documents by increasing distance of their texts' embeddings to that
\* of t, and with k = 1 returns the Document whose content is t. A text was
\* added exactly when a row of the index is its embedding (rows are only ever
\* appended, and the embedding function is injective). Stated for a store all
\* of whose ids resolve.
C9_RoundTrip ==
    (/\ call.op = "similarity_search"
     /\ call.k >= 1
     /\ \E i \in DOMAIN index.rows : index.rows[i] = embedding_function(call.query)
     /\ AllIdsResolve)
    => /\ result.status = "ok"
       /\ Len(result.docs) >= 1
       /\ result.docs[1].page_content = call.query
       /\ \A i, j \in DOMAIN result.docs : i < j =>
             SumSq(embedding_function(result.docs[i].page_content),
                   embedding_function(call.query), 1)
             <= SumSq(embedding_function(result.docs[j].page_content),
                      embedding_function(call.query), 1)

\* C10: every row and every (row -> id) entry that exists before a call is
\* there with the same value after it; add_texts adds rows and keys only at
\* indices >= the previous row count; the searches change nothing of the store.
C10_AppendOnly ==
    [][/\ Len(index'.rows) >= Len(index.rows)
       /\ \A i \in DOMAIN index.rows : index'.rows[i] = index.rows[i]
       /\ \A r \in DOMAIN index_to_docstore_id :
             /\ r \in DOMAIN index_to_docstore_id'
             /\ index_to_docstore_id'[r] = index_to_docstore_id[r]
       /\ \A r \in DOMAIN index_to_docstore_id' \ DOMAIN index_to_docstore_id :
             r >= Len(index.rows)
       /\ call'.op # "add_texts" => store' = store]_vars

====
